---- MODULE Spec2Model ----
(***************************************************************************)
(* MultiSchemaFetcher (src/multi_schema_data_fetcher.py): the worker pool  *)
(* of fetch_all_schemas, the per-source worker fetch_from_schema, the      *)
(* grouped CSV writer write_row and the background progress timer.         *)
(*                                                                         *)
(* Threads of the model: the main thread (fetch_all_schemas), one pool     *)
(* task per entry of credentials_list (fetch_from_schema) and the daemon   *)
(* timer thread (timer_thread).  A step is one lock-protected block or one *)
(* blocking call of the code.  write_row is called by the main thread      *)
(* only (line 323), so the processing of one completed future (lines       *)
(* 315-335) touches no state another thread reads and is one step.         *)
(*                                                                         *)
(* Environment: what each database does (refuse the connection, fail the   *)
(* query, return rows) is drawn in Init; whether a sink operation (open,   *)
(* write, close) or a progress-file write fails is drawn at the call.      *)
(***************************************************************************)
EXTENDS Integers, Sequences, FiniteSets, TLC

\* ------------------------------------------------------------------ bounds
\* entries of credentials_list
NumSources == 2
\* rows returned by all the sources of a run together
MaxTotalRows == 2
\* sink or progress-file operations that fail in a run
MaxFaults == 1
\* iterations of the timer thread's loop in a run
MaxTicks == 1
\* calls of fetch_all_schemas on one MultiSchemaFetcher
MaxCalls == 2
\* threads that call write_row
NumCallers == 2

Sources == 1..NumSources
Callers == 1..NumCallers
DbNames == {"a", "b"}

\* ------------------------------------------------------------------ values
\* A scalar of a result row: <<type, text>>.  Python keeps 2021 and '2021'
\* apart as dictionary keys, and None apart from 'None'.
IntV(t) == <<"int", t>>
StrV(t) == <<"str", t>>
Null == <<"null", "">>
\* a column the row does not have
Absent == <<"absent", "">>

\* str(value), as the f-string of line 271 formats it
Str(v) == IF v = Null THEN "None" ELSE v[2]

\* the text csv.writer puts in a cell: None is written as the empty string
CsvText(v) == IF v = Null \/ v = Absent THEN "" ELSE v[2]

\* The columns a query result can have, in sorted() order.
ColumnOrder == <<"n", "schema", "y">>
ColSet == {ColumnOrder[i] : i \in 1..Len(ColumnOrder)}

\* sorted(S) for a set of column names
sorted(S) == SelectSeq(ColumnOrder, LAMBDA c : c \in S)

\* row.keys()
Keys(row) == {c \in ColSet : row[c] # Absent}

\* The data rows a query can return.  The last one comes from a schema whose
\* table lacks the column n.
RowChoices ==
    { [n |-> IntV("5"), schema |-> Absent, y |-> IntV("2021")],
      [n |-> IntV("7"), schema |-> Absent, y |-> IntV("2021")],
      [n |-> IntV("7"), schema |-> Absent, y |-> IntV("2022")],
      [n |-> IntV("5"), schema |-> Absent, y |-> Null],
      [n |-> Absent,    schema |-> Absent, y |-> IntV("2021")] }

RECURSIVE SeqsUpTo(_, _)
SeqsUpTo(S, n) ==
    IF n = 0 THEN {<<>>}
    ELSE LET shorter == SeqsUpTo(S, n - 1)
         IN  shorter \cup {Append(q, x) : q \in {p \in shorter : Len(p) = n - 1}, x \in S}

\* line 150: dict(zip(columns, row)) for every row of one cursor, so the
\* rows of one result have the same columns; a column of a result has one
\* type, and may be NULL
ResultSetsOf(rows) ==
    {r \in SeqsUpTo(rows, MaxTotalRows) :
        \A i \in 1..Len(r), j \in 1..Len(r) :
            /\ Keys(r[i]) = Keys(r[j])
            /\ \A c \in Keys(r[i]) :
                  r[i][c][1] = r[j][c][1] \/ r[i][c] = Null \/ r[j][c] = Null}

ResultSets == ResultSetsOf(RowChoices)

\* What one database does: refuse the connection, fail the query, or
\* return rows.
DbBehaviours ==
    {[outcome |-> "refuse", rows |-> <<>>], [outcome |-> "queryerr", rows |-> <<>>]}
        \cup {[outcome |-> "ok", rows |-> r] : r \in ResultSets}

\* Rows in which the grouping column is text: the string '2021' (a schema
\* where y is a varchar) and the string 'None'.
TextRows ==
    { [n |-> IntV("5"), schema |-> Absent, y |-> StrV("2021")],
      [n |-> IntV("5"), schema |-> Absent, y |-> StrV("None")] }

\* Rows of a query that selects a column named schema, for example
\* SELECT table_schema AS `schema`, ... FROM information_schema.tables
SchemaRows ==
    { [n |-> IntV("5"), schema |-> StrV("b"), y |-> IntV("2021")],
      [n |-> IntV("7"), schema |-> StrV("a"), y |-> IntV("2021")] }

\* a database whose query never returns
Hang == [outcome |-> "hang", rows |-> <<>>]

\* ------------------------------------------------------------------ state
VARIABLES
    credentials_list,   \* database_name of each source descriptor
    db,                 \* what each source's database does
    max_workers,
    group_column,       \* "" is None
    single_file_name,   \* "" is None
    call,               \* the number of the current call of fetch_all_schemas
    \* MultiSchemaFetcher fields
    errors,
    active_threads,
    stop_progress_timer,
    \* fetch_from_schema, per task
    wpc,                \* pending, connecting, connected, querying, done
    conn,               \* none, open, closed
    result,             \* the future's result
    \* fetch_all_schemas locals
    mpc,
    consumed,           \* futures as_completed has yielded
    success_count,
    error_count,
    group_writers,
    group_fieldnames,
    group_row_counts,
    open_files,         \* in insertion order: <<[key, path, closed]>>
    files,              \* the output directory: path -> [lines, opens]
    write_failed,       \* history: <<source, row index>> of the write_row calls that raised
    progress_main,      \* progress_data of the final _write_progress_file
    summary,
    \* timer_thread
    lock,               \* the writer's lock: 0 free, else the caller holding it
    wr,                 \* per caller of write_row: its position and arguments
    writes,             \* write_row calls started by the callers
    tpc,                \* off, loop, write, exited
    progress_timer,     \* progress_data of the timer's _write_progress_file
    ticks,              \* iterations of the timer loop so far
    artifact,           \* thread_progress.json: <<>> or <<progress_data>>
    fault_budget,       \* sink and progress-file operations that may still fail
    \* save_results
    fed,                \* (source, row) pairs handed to write_row one by one
    replay,             \* the frame of save_results: position and registries
    replay_files        \* the output directory of save_results

\* what no step of a call of fetch_all_schemas changes
envVars == <<credentials_list, db, max_workers, group_column, single_file_name, call>>
workerVars == <<wpc, conn, result>>
writerVars == <<group_writers, group_fieldnames, group_row_counts, open_files, files,
               write_failed>>
mainVars == <<mpc, consumed, success_count, error_count, progress_main, summary>>
timerVars == <<tpc, progress_timer, ticks>>
lockVars == <<lock, wr, writes>>
saveVars == <<fed, replay, replay_files>>
vars == <<envVars, lockVars, saveVars, errors, active_threads, stop_progress_timer,
          workerVars, writerVars, mainVars, timerVars, artifact, fault_budget>>

NoResult == [schema |-> "", status |-> "none", error |-> "", data |-> <<>>]
NoSummary == [total_schemas |-> 0, successful |-> 0, failed |-> 0,
              total_rows_written |-> 0, errors |-> <<>>]
EmptyMap == [x \in {} |-> x]

\* save_results before it is called, with the locals of lines 387-392
NoReplay ==
    [pc |-> "idle", result |-> 1, row |-> 1,
     group_writers |-> EmptyMap, group_fieldnames |-> EmptyMap,
     group_row_counts |-> EmptyMap, open_files |-> <<>>, row_count |-> 0]

RECURSIVE TotalRows(_, _)
TotalRows(d, n) == IF n = 0 THEN 0 ELSE Len(d[n].rows) + TotalRows(d, n - 1)

\* the writer's registries and files as one record; raised: a call raised
WriterState ==
    [group_writers |-> group_writers, group_fieldnames |-> group_fieldnames,
     group_row_counts |-> group_row_counts, open_files |-> open_files,
     files |-> files, write_failed |-> write_failed, raised |-> FALSE]

\* a thread that is not in write_row
IdleCaller ==
    [pc |-> "idle", schema_name |-> "", data_row |-> [c \in ColSet |-> Absent],
     n |-> 0,
     before |-> [group_writers |-> EmptyMap, group_fieldnames |-> EmptyMap,
                 group_row_counts |-> EmptyMap, open_files |-> <<>>,
                 files |-> EmptyMap, write_failed |-> {}, raised |-> FALSE]]

\* an operation of the environment may fail now
MayFail == fault_budget > 0

\* __init__ (lines 42-48), and the arguments of the call; budget is the
\* number of sink and progress-file operations the environment may fail
SetupCall(budget) ==
    /\ credentials_list \in [Sources -> DbNames]
    /\ credentials_list[1] = "a"
    /\ max_workers \in 1..NumSources
    /\ group_column = "y"
    /\ single_file_name = ""
    /\ call = 1
    /\ errors = <<>>
    /\ active_threads = EmptyMap
    /\ stop_progress_timer = FALSE
    /\ wpc = [s \in Sources |-> "pending"]
    /\ conn = [s \in Sources |-> "none"]
    /\ result = [s \in Sources |-> NoResult]
    /\ mpc = "idle"
    /\ consumed = {}
    /\ success_count = 0
    /\ error_count = 0
    /\ group_writers = EmptyMap
    /\ group_fieldnames = EmptyMap
    /\ group_row_counts = EmptyMap
    /\ open_files = <<>>
    /\ files = EmptyMap
    /\ write_failed = {}
    /\ lock = 0
    /\ wr = [c \in Callers |-> IdleCaller]
    /\ writes = 0
    /\ progress_main = <<>>
    /\ summary = NoSummary
    /\ tpc = "off"
    /\ progress_timer = <<>>
    /\ ticks = 0
    /\ artifact = <<>>
    /\ fault_budget = budget
    /\ fed = 0
    /\ replay = NoReplay
    /\ replay_files = EmptyMap

\* every connect and every query comes back
Setup(budget) ==
    /\ db \in [Sources -> DbBehaviours]
    /\ TotalRows(db, NumSources) <= MaxTotalRows
    /\ SetupCall(budget)

Init == Setup(MaxFaults)

\* ------------------------------------------------------- fetch_from_schema
thread_name(s) == <<"Worker", credentials_list[s]>>

\* del self.active_threads[thread_name], if present
Unregister(at, tn) == [k \in DOMAIN at \ {tn} |-> at[k]]

Running == {s \in Sources : wpc[s] \in {"connecting", "connected", "querying"}}

\* a pool that starts a thread per task
PoolHasFreeSlot_Unbounded == TRUE

\* ThreadPoolExecutor(max_workers): a task starts when a pool thread is free
PoolHasFreeSlot == Cardinality(Running) < max_workers

\* The pool's queue is FIFO: the next task is the first one not yet started.
NextQueued(s) == wpc[s] = "pending" /\ \A t \in Sources : t < s => wpc[t] # "pending"

\* lines 104-115: the task starts and registers as 'connecting'
Register(s) ==
    /\ mpc = "pool"
    /\ NextQueued(s)
    /\ PoolHasFreeSlot
    /\ wpc' = [wpc EXCEPT ![s] = "connecting"]
    /\ active_threads' = (thread_name(s) :> [schema |-> credentials_list[s],
                                              status |-> "connecting"]) @@ active_threads
    /\ UNCHANGED <<envVars, lockVars, saveVars, errors, stop_progress_timer, conn, result, writerVars,
                   mainVars, timerVars, artifact, fault_budget>>

\* lines 118-137: pymysql.connect, and the handler of a refused connection
Connect(s) ==
    /\ wpc[s] = "connecting"
    /\ IF db[s].outcome = "refuse"
       THEN /\ active_threads' = Unregister(active_threads, thread_name(s))
            /\ result' = [result EXCEPT ![s] =
                   [schema |-> credentials_list[s], status |-> "error",
                    error |-> "Connection timeout", data |-> <<>>]]
            /\ wpc' = [wpc EXCEPT ![s] = "done"]
            /\ UNCHANGED conn
       ELSE /\ conn' = [conn EXCEPT ![s] = "open"]
            /\ wpc' = [wpc EXCEPT ![s] = "connected"]
            /\ UNCHANGED <<active_threads, result>>
    /\ UNCHANGED <<envVars, lockVars, saveVars, errors, stop_progress_timer, writerVars, mainVars,
                   timerVars, artifact, fault_budget>>

\* lines 139-141: self.active_threads[thread_name]['status'] = 'querying';
\* a missing entry is a KeyError, handled at lines 169-181
MarkQuerying(s) ==
    /\ wpc[s] = "connected"
    /\ IF thread_name(s) \in DOMAIN active_threads
       THEN /\ active_threads' = [active_threads EXCEPT
                                     ![thread_name(s)].status = "querying"]
            /\ wpc' = [wpc EXCEPT ![s] = "querying"]
            /\ UNCHANGED result
       ELSE /\ result' = [result EXCEPT ![s] =
                   [schema |-> credentials_list[s], status |-> "error",
                    error |-> "KeyError", data |-> <<>>]]
            /\ wpc' = [wpc EXCEPT ![s] = "done"]
            /\ UNCHANGED active_threads
    /\ UNCHANGED <<envVars, lockVars, saveVars, errors, stop_progress_timer, conn, writerVars, mainVars,
                   timerVars, artifact, fault_budget>>

\* lines 143-167: execute, fetchall, close, unregister, return the rows;
\* lines 169-181 when execute or fetchall raises
Query(s) ==
    /\ wpc[s] = "querying"
    /\ db[s] # Hang
    /\ active_threads' = Unregister(active_threads, thread_name(s))
    /\ wpc' = [wpc EXCEPT ![s] = "done"]
    /\ IF db[s].outcome = "queryerr"
       THEN /\ result' = [result EXCEPT ![s] =
                   [schema |-> credentials_list[s], status |-> "error",
                    error |-> "query error", data |-> <<>>]]
            /\ UNCHANGED conn
       ELSE /\ conn' = [conn EXCEPT ![s] = "closed"]
            /\ result' = [result EXCEPT ![s] =
                   [schema |-> credentials_list[s], status |-> "success",
                    error |-> "", data |-> db[s].rows]]
    /\ UNCHANGED <<envVars, lockVars, saveVars, errors, stop_progress_timer, writerVars, mainVars,
                   timerVars, artifact, fault_budget>>

\* ----------------------------------------------------------------- write_row
\* lines 253-254: row = {'schema': schema_name}; row.update(data_row)
MergeRow(schema_name, data_row) ==
    [c \in ColSet |->
        IF data_row[c] # Absent THEN data_row[c]
        ELSE IF c = "schema" THEN StrV(schema_name) ELSE Absent]

\* lines 256-262
GroupValue(data_row) ==
    IF single_file_name # "" THEN StrV("all")
    ELSE IF group_column # ""
         THEN IF data_row[group_column] # Absent THEN data_row[group_column]
              ELSE StrV("unknown")
         ELSE StrV("all")

\* lines 267-275: the name of the group's file in output_dir
Filename(group_value) ==
    IF single_file_name # "" THEN <<"file", single_file_name>>
    ELSE IF group_column # "" THEN <<group_column, Str(group_value)>>
         ELSE <<"file", "schema_results.csv">>

\* the columns in the order of row.keys(): the query's column order
Fieldnames_Unsorted(row) ==
    <<"schema">> \o SelectSeq(<<"y", "n">>, LAMBDA c : c \in Keys(row))

\* line 281
Fieldnames(row) == <<"schema">> \o sorted(Keys(row) \ {"schema"})

\* a writer that puts out the row's own values, in the order of its columns
Cells_OfRowColumns(fieldnames, row) ==
    [i \in 1..Len(sorted(Keys(row))) |-> CsvText(row[sorted(Keys(row))[i]])]

\* DictWriter.writerow with extrasaction='ignore': the row's values in the
\* order of fieldnames, '' for a fieldname the row lacks, other keys dropped
Cells(fieldnames, row) == [i \in 1..Len(fieldnames) |-> CsvText(row[fieldnames[i]])]

\* open(path, 'w'): creates or truncates the file
OpenForWriting(fs, path) ==
    (path :> [lines |-> <<>>,
              opens |-> IF path \in DOMAIN fs THEN fs[path].opens + 1 ELSE 1]) @@ fs

\* a file written at its beginning
AppendLine_AtFront(fs, path, line) == [fs EXCEPT ![path].lines = <<line>> \o @]

\* file.write on a file opened with 'w': the line goes to the end
AppendLine(fs, path, line) == [fs EXCEPT ![path].lines = Append(@, line)]

\* write_row (lines 249-297) on the writer state st; tag = <<source, row
\* index>> says which row of which result this is; fault names the sink
\* operation that raises in this call: none, open (line 276), header (line
\* 288) or row (line 291).  st.raised: the call raised.
write_row(st, schema_name, data_row, tag, fault) ==
    LET row == MergeRow(schema_name, data_row)
        group_value == GroupValue(data_row)
        path == Filename(group_value)
        isNew == group_value \notin DOMAIN st.group_writers
        st1 == IF isNew
               THEN [st EXCEPT
                       !.open_files = Append(@, [key |-> group_value, path |-> path,
                                                 closed |-> FALSE]),
                       !.files = OpenForWriting(@, path),
                       !.group_row_counts = (group_value :> 0) @@ @]
               ELSE st
        needHeader == group_value \notin DOMAIN st1.group_fieldnames
        fieldnames == IF needHeader THEN Fieldnames(row)
                      ELSE st1.group_fieldnames[group_value]
        st2 == IF needHeader
               THEN [st1 EXCEPT
                       !.group_fieldnames = (group_value :> fieldnames) @@ @,
                       !.group_writers = (group_value :> fieldnames) @@ @]
               ELSE st1
        st3 == IF needHeader
               THEN [st2 EXCEPT !.files = AppendLine(@, path,
                       [kind |-> "header", cells |-> fieldnames, tag |-> <<0, 0>>])]
               ELSE st2
        st4 == [st3 EXCEPT
                  !.files = AppendLine(@, path,
                       [kind |-> "row", cells |-> Cells(st3.group_writers[group_value], row),
                        tag |-> tag]),
                  !.group_row_counts[group_value] = @ + 1]
    IN  IF fault = "open" /\ isNew
        THEN [st EXCEPT !.raised = TRUE, !.write_failed = @ \cup {tag}]
        ELSE IF fault = "header" /\ needHeader
        THEN [st2 EXCEPT !.raised = TRUE, !.write_failed = @ \cup {tag}]
        ELSE IF fault = "row"
        THEN [st3 EXCEPT !.raised = TRUE, !.write_failed = @ \cup {tag}]
        ELSE st4

\* lines 322-323: for data_row in result['data']: write_row(schema_name,
\* data_row); the loop ends at the first call that raises.  failAt is the
\* index of the row whose call meets the fault (0: none).
RECURSIVE WriteRows(_, _, _, _, _, _)
WriteRows(st, s, rows, k, failAt, fault) ==
    IF k > Len(rows) \/ st.raised THEN st
    ELSE WriteRows(write_row(st, credentials_list[s], rows[k], <<s, k>>,
                             IF k = failAt THEN fault ELSE "none"),
                   s, rows, k + 1, failAt, fault)

SinkFaults == {"open", "header", "row"}

\* ------------------------------------------------- write_row, step by step
\* write_row as the threads that call it execute it: what a thread does
\* before `with lock:`, the acquisition, each block under the lock, the
\* release.  No sink operation fails here.
Inside == {"locked", "opened", "headed", "written", "counted"}

\* a lock that no thread waits for
LockFree_Ignored == TRUE

\* threading.Lock: acquired by one thread at a time
LockFree == lock = 0

\* lines 253-262: the call, with its arguments; row and group_value are
\* computed from them
WrCall(c) ==
    /\ wr[c].pc = "idle"
    /\ writes < MaxTotalRows
    /\ writes' = writes + 1
    /\ \E name \in DbNames, data_row \in RowChoices :
          wr' = [wr EXCEPT ![c] = [pc |-> "called", schema_name |-> name,
                                   data_row |-> data_row, n |-> writes + 1,
                                   before |-> IdleCaller.before]]
    /\ UNCHANGED <<envVars, saveVars, lock, errors, active_threads, stop_progress_timer,
                   workerVars, writerVars, mainVars, timerVars, artifact, fault_budget>>

\* line 264: with lock
WrAcquire(c) ==
    /\ wr[c].pc = "called"
    /\ LockFree
    /\ lock' = c
    /\ wr' = [wr EXCEPT ![c].pc = "locked", ![c].before = WriterState]
    /\ UNCHANGED <<envVars, saveVars, writes, errors, active_threads, stop_progress_timer,
                   workerVars, writerVars, mainVars, timerVars, artifact, fault_budget>>

\* lines 265-277: the group's file is opened if the group has no writer
WrOpen(c) ==
    LET group_value == GroupValue(wr[c].data_row)
        path == Filename(group_value)
    IN  /\ wr[c].pc = "locked"
        /\ wr' = [wr EXCEPT ![c].pc = "opened"]
        /\ IF group_value \notin DOMAIN group_writers
           THEN /\ open_files' = Append(open_files, [key |-> group_value, path |-> path,
                                                     closed |-> FALSE])
                /\ files' = OpenForWriting(files, path)
                /\ group_row_counts' = (group_value :> 0) @@ group_row_counts
           ELSE UNCHANGED <<open_files, files, group_row_counts>>
        /\ UNCHANGED <<envVars, saveVars, lock, writes, errors, active_threads,
                       stop_progress_timer, workerVars, group_writers,
                       group_fieldnames, write_failed, mainVars, timerVars, artifact,
                       fault_budget>>

\* lines 279-288: the header is fixed and written if the group has none
WrHeader(c) ==
    LET group_value == GroupValue(wr[c].data_row)
        fieldnames == Fieldnames(MergeRow(wr[c].schema_name, wr[c].data_row))
    IN  /\ wr[c].pc = "opened"
        /\ wr' = [wr EXCEPT ![c].pc = "headed"]
        /\ IF group_value \notin DOMAIN group_fieldnames
           THEN /\ group_fieldnames' = (group_value :> fieldnames) @@ group_fieldnames
                /\ group_writers' = (group_value :> fieldnames) @@ group_writers
                /\ files' = AppendLine(files, Filename(group_value),
                       [kind |-> "header", cells |-> fieldnames, tag |-> <<0, 0>>])
           ELSE UNCHANGED <<group_fieldnames, group_writers, files>>
        /\ UNCHANGED <<envVars, saveVars, lock, writes, errors, active_threads,
                       stop_progress_timer, workerVars, group_row_counts, open_files,
                       write_failed, mainVars, timerVars, artifact, fault_budget>>

\* lines 290-291: the row is written
WrRow(c) ==
    LET group_value == GroupValue(wr[c].data_row)
        row == MergeRow(wr[c].schema_name, wr[c].data_row)
    IN  /\ wr[c].pc = "headed"
        /\ wr' = [wr EXCEPT ![c].pc = "written"]
        /\ files' = AppendLine(files, Filename(group_value),
               [kind |-> "row", cells |-> Cells(group_writers[group_value], row),
                tag |-> <<c, wr[c].n>>])
        /\ UNCHANGED <<envVars, saveVars, lock, writes, errors, active_threads,
                       stop_progress_timer, workerVars, group_writers,
                       group_fieldnames, group_row_counts, open_files, write_failed,
                       mainVars, timerVars, artifact, fault_budget>>

\* line 292: the group's counter
WrCount(c) ==
    /\ wr[c].pc = "written"
    /\ wr' = [wr EXCEPT ![c].pc = "counted"]
    /\ group_row_counts' = [group_row_counts EXCEPT
                               ![GroupValue(wr[c].data_row)] = @ + 1]
    /\ UNCHANGED <<envVars, saveVars, lock, writes, errors, active_threads, stop_progress_timer,
                   workerVars, group_writers, group_fieldnames, open_files, files,
                   write_failed, mainVars, timerVars, artifact, fault_budget>>

\* line 297: the end of the `with lock:` block and of the call
WrRelease(c) ==
    /\ wr[c].pc = "counted"
    /\ lock' = 0
    /\ wr' = [wr EXCEPT ![c] = IdleCaller]
    /\ UNCHANGED <<envVars, saveVars, writes, errors, active_threads, stop_progress_timer,
                   workerVars, writerVars, mainVars, timerVars, artifact, fault_budget>>

WriterNext ==
    \/ \E c \in Callers : WrCall(c)
    \/ \E c \in Callers : WrAcquire(c)
    \/ \E c \in Callers : WrOpen(c)
    \/ \E c \in Callers : WrHeader(c)
    \/ \E c \in Callers : WrRow(c)
    \/ \E c \in Callers : WrCount(c)
    \/ \E c \in Callers : WrRelease(c)

\* write_row called by several threads on the registries of one run
\* (fetch_all_schemas itself is not running: one idle configuration)
WriterInit ==
    /\ Setup(0)
    /\ max_workers = 1
    /\ \A s \in Sources : credentials_list[s] = "a" /\ db[s].outcome = "refuse"
WriterSpec == WriterInit /\ [][WriterNext]_vars

\* --------------------------------------------------------- fetch_all_schemas
\* lines 234-311: the registries are created, the timer thread is started
\* and every source is submitted to the pool
StartRun ==
    /\ mpc = "idle"
    /\ mpc' = "pool"
    /\ tpc' = "loop"
    /\ UNCHANGED <<envVars, lockVars, saveVars, errors, active_threads, stop_progress_timer, workerVars,
                   writerVars, consumed, success_count, error_count, progress_main,
                   summary, progress_timer, ticks, artifact, fault_budget>>

\* a result that counts as a success only when it brings rows
IsSuccess_WithRows(r) == r.status = "success" /\ r.data # <<>>

\* line 319: if result['status'] == 'success'
IsSuccess(r) == r.status = "success"

\* futures taken in the order of submission
Yields_InSubmissionOrder(s) ==
    result[s].status # "none" /\ \A t \in Sources : t < s => t \in consumed

\* line 314: as_completed yields a future once it is done
Yields(s) == result[s].status # "none"

\* lines 314-335, one iteration of `for future in as_completed(...)`
ProcessCompleted(s) ==
    /\ mpc = "pool"
    /\ s \notin consumed
    /\ Yields(s)
    /\ consumed' = consumed \cup {s}
    /\ IF IsSuccess(result[s])
       THEN \E failAt \in 0..Len(result[s].data), fault \in SinkFaults :
              /\ failAt # 0 => MayFail
              /\ \E st \in {WriteRows(WriterState, s, result[s].data, 1, failAt, fault)} :
                  /\ st.raised <=> failAt # 0
                  /\ fault_budget' = IF st.raised THEN fault_budget - 1 ELSE fault_budget
                  /\ success_count' = success_count + 1
                  /\ group_writers' = st.group_writers
                  /\ group_fieldnames' = st.group_fieldnames
                  /\ group_row_counts' = st.group_row_counts
                  /\ open_files' = st.open_files
                  /\ files' = st.files
                  /\ write_failed' = st.write_failed
                  /\ IF st.raised
                     THEN /\ error_count' = error_count + 1
                          /\ errors' = Append(errors,
                                [schema |-> credentials_list[s], status |-> "error",
                                 error |-> "sink error", data |-> <<>>])
                     ELSE UNCHANGED <<error_count, errors>>
       ELSE /\ error_count' = error_count + 1
            /\ errors' = Append(errors, result[s])
            /\ UNCHANGED <<success_count, writerVars, fault_budget>>
    /\ UNCHANGED <<envVars, lockVars, saveVars, active_threads, stop_progress_timer, workerVars, mpc,
                   progress_main, summary, timerVars, artifact>>

\* line 306: leaving the `with ThreadPoolExecutor` block once as_completed
\* has yielded every future
LeavePool ==
    /\ mpc = "pool"
    /\ consumed = Sources
    /\ mpc' = "closing"
    /\ UNCHANGED <<envVars, lockVars, saveVars, errors, active_threads, stop_progress_timer, workerVars,
                   writerVars, consumed, success_count, error_count, progress_main,
                   summary, timerVars, artifact, fault_budget>>

\* f.close() for the first n handles of open_files
CloseFirst(of, n) == [i \in 1..Len(of) |-> IF i <= n THEN [of[i] EXCEPT !.closed = TRUE]
                                          ELSE of[i]]

\* lines 337-340: for f in open_files.values(): f.close().  failAt is the
\* handle whose close() raises (0: none): the file object is closed all the
\* same, the loop is left and the exception leaves fetch_all_schemas.
CloseFiles ==
    /\ mpc = "closing"
    /\ \E failAt \in 0..Len(open_files) :
         IF failAt = 0
         THEN /\ open_files' = CloseFirst(open_files, Len(open_files))
              /\ mpc' = "stopping"
              /\ UNCHANGED fault_budget
         ELSE /\ MayFail
              /\ open_files' = CloseFirst(open_files, failAt)
              /\ mpc' = "raised"
              /\ fault_budget' = fault_budget - 1
    /\ UNCHANGED <<envVars, lockVars, saveVars, errors, active_threads, stop_progress_timer, workerVars,
                   group_writers, group_fieldnames, group_row_counts, files,
                   write_failed, consumed, success_count, error_count, progress_main,
                   summary, timerVars, artifact>>

\* line 343
StopTimer ==
    /\ mpc = "stopping"
    /\ stop_progress_timer' = TRUE
    /\ mpc' = "final_snapshot"
    /\ UNCHANGED <<envVars, lockVars, saveVars, errors, active_threads, workerVars, writerVars, consumed,
                   success_count, error_count, progress_main, summary, timerVars,
                   artifact, fault_budget>>

\* ------------------------------------------------------ _write_progress_file
\* lines 210-215, under thread_lock
progress_data ==
    [active_threads |-> Cardinality(DOMAIN active_threads), threads |-> active_threads]

\* a progress-file error that leaves _write_progress_file
ProgressErrorCaught_Raised(next) == "raised"

\* lines 219-220: except Exception: the error is logged and
\* _write_progress_file returns; the caller goes on with next
ProgressErrorCaught(next) == next

\* line 345, first half: the final call takes its snapshot
FinalSnapshot ==
    /\ mpc = "final_snapshot"
    /\ progress_main' = <<progress_data>>
    /\ mpc' = "final_write"
    /\ UNCHANGED <<envVars, lockVars, saveVars, errors, active_threads, stop_progress_timer, workerVars,
                   writerVars, consumed, success_count, error_count, summary,
                   timerVars, artifact, fault_budget>>

\* line 345, second half (lines 217-220): the snapshot is written, or the
\* write fails and is logged
FinalWrite ==
    /\ mpc = "final_write"
    /\ \/ /\ artifact' = progress_main
          /\ mpc' = "summary"
          /\ UNCHANGED fault_budget
       \/ /\ MayFail
          /\ fault_budget' = fault_budget - 1
          /\ mpc' = ProgressErrorCaught("summary")
          /\ UNCHANGED artifact
    /\ UNCHANGED <<envVars, lockVars, saveVars, errors, active_threads, stop_progress_timer, workerVars,
                   writerVars, consumed, success_count, error_count, progress_main,
                   summary, timerVars>>

\* sorted(group_row_counts.items()) at line 355 compares the keys: ints
\* with ints, strings with strings; None or a mix of types is a TypeError
Sortable(keys) == \A a \in keys, b \in keys : a # b => (a[1] = b[1] /\ a[1] # "null")

RECURSIVE SumCounts(_)
SumCounts(f) ==
    IF DOMAIN f = {} THEN 0
    ELSE LET k == CHOOSE x \in DOMAIN f : TRUE
         IN  f[k] + SumCounts([y \in DOMAIN f \ {k} |-> f[y]])

\* lines 347-367
Summarize ==
    /\ mpc = "summary"
    /\ IF Sortable(DOMAIN group_row_counts)
       THEN /\ summary' = [total_schemas |-> NumSources,
                           successful |-> success_count,
                           failed |-> error_count,
                           total_rows_written |-> SumCounts(group_row_counts),
                           errors |-> errors]
            /\ mpc' = "returned"
       ELSE /\ mpc' = "raised"
            /\ UNCHANGED summary
    /\ UNCHANGED <<envVars, lockVars, saveVars, errors, active_threads, stop_progress_timer, workerVars,
                   writerVars, consumed, success_count, error_count, progress_main,
                   timerVars, artifact, fault_budget>>

\* -------------------------------------------------------------- timer_thread
\* lines 190-192 and 210-215: the loop test and, when not stopped, the
\* snapshot of _write_progress_file
TimerSnapshot ==
    /\ tpc = "loop"
    /\ IF stop_progress_timer
       THEN /\ tpc' = "exited"
            /\ UNCHANGED <<progress_timer, ticks>>
       ELSE /\ ticks < MaxTicks
            /\ ticks' = ticks + 1
            /\ tpc' = "write"
            /\ progress_timer' = <<progress_data>>
    /\ UNCHANGED <<envVars, lockVars, saveVars, errors, active_threads, stop_progress_timer, workerVars,
                   writerVars, mainVars, artifact, fault_budget>>

\* lines 217-220 and 196-201: the snapshot is written (or the write fails
\* and is logged), then the thread sleeps
TimerWrite ==
    /\ tpc = "write"
    /\ \/ /\ artifact' = progress_timer
          /\ tpc' = "loop"
          /\ UNCHANGED fault_budget
       \/ /\ MayFail
          /\ fault_budget' = fault_budget - 1
          /\ tpc' = ProgressErrorCaught("loop")
          /\ UNCHANGED artifact
    /\ progress_timer' = <<>>
    /\ UNCHANGED ticks
    /\ UNCHANGED <<envVars, lockVars, saveVars, errors, active_threads, stop_progress_timer, workerVars,
                   writerVars, mainVars>>

\* ---------------------------------------------------------------------- spec
Next ==
    \/ StartRun
    \/ \E s \in Sources : Register(s)
    \/ \E s \in Sources : Connect(s)
    \/ \E s \in Sources : MarkQuerying(s)
    \/ \E s \in Sources : Query(s)
    \/ \E s \in Sources : ProcessCompleted(s)
    \/ LeavePool
    \/ CloseFiles
    \/ StopTimer
    \/ FinalSnapshot
    \/ FinalWrite
    \/ Summarize
    \/ TimerSnapshot
    \/ TimerWrite

Spec == Init /\ [][Next]_vars

\* The runs in which no sink operation and no progress-file write fails.
ReliableInit == Setup(0)
ReliableSpec == ReliableInit /\ [][Next]_vars

\* The runs in which, besides, no query returns a row: the pool, the workers
\* and the timer behave as in every run, the writer stays idle.
PoolInit == Setup(0) /\ TotalRows(db, NumSources) = 0
PoolSpec == PoolInit /\ [][Next]_vars

\* The pool phase (lines 306-335) of the runs in which one query never
\* returns, the pool has two threads or more and no sink operation fails.
\* The main thread, the pool's threads and the databases that answer keep
\* going: while one of them can take a step, a step is taken.  The timer
\* thread, which touches the progress file only, is left out.  The hung
\* source is the first one submitted, the one every other source is queued
\* behind; the others return a row at most.
HangInit ==
    /\ db \in [Sources -> DbBehaviours \cup {Hang}]
    /\ \A s \in Sources : db[s] = Hang <=> s = 1
    /\ \A s \in Sources : Len(db[s].rows) <= 1
    /\ TotalRows(db, NumSources) <= MaxTotalRows
    /\ SetupCall(0)
    /\ max_workers >= 2

PoolStep ==
    \/ StartRun
    \/ \E s \in Sources : Register(s) \/ Connect(s) \/ MarkQuerying(s) \/ Query(s)
    \/ \E s \in Sources : ProcessCompleted(s)

HangSpec == HangInit /\ [][PoolStep]_vars /\ WF_vars(PoolStep)

\* The pool phase with one pool thread and no failing sink operation: the
\* sources are fetched one after the other and the main thread takes each
\* result and writes its rows.
StreamInit == Setup(0) /\ max_workers = 1 /\ \A s \in Sources : credentials_list[s] = "a"
StreamSpec == StreamInit /\ [][PoolStep]_vars

\* The runs in which no query returns a row and a write of the progress
\* file may fail; one pool thread.
ProgressInit ==
    /\ Setup(MaxFaults)
    /\ TotalRows(db, NumSources) = 0
    /\ max_workers = 1
    /\ \A s \in Sources : credentials_list[s] = "a"
ProgressSpec == ProgressInit /\ [][Next]_vars

\* The pool phase with one pool thread, the grouping column holding text in
\* some rows and numbers or NULL in others.
TextInit ==
    /\ db \in [Sources -> {[outcome |-> "ok", rows |-> r] :
                              r \in ResultSetsOf(RowChoices \cup TextRows)}]
    /\ TotalRows(db, NumSources) <= MaxTotalRows
    /\ SetupCall(0)
    /\ max_workers = 1
    /\ \A s \in Sources : credentials_list[s] = "a"
TextSpec == TextInit /\ [][PoolStep]_vars

\* The pool phase with one pool thread, the query selecting a column named
\* schema in some sources.
SchemaInit ==
    /\ db \in [Sources -> {[outcome |-> "ok", rows |-> r] :
                              r \in ResultSetsOf(RowChoices \cup SchemaRows)}]
    /\ TotalRows(db, NumSources) <= MaxTotalRows
    /\ SetupCall(0)
    /\ max_workers = 1
SchemaSpec == SchemaInit /\ [][PoolStep]_vars

\* A further call of fetch_all_schemas on the same MultiSchemaFetcher, with
\* the same arguments and sources, after the previous call has returned and
\* its timer thread has seen the stop flag.  The locals of fetch_all_schemas
\* (lines 243-247, 299-301) and the pool's tasks are new; the fields set by
\* __init__ (errors, active_threads, stop_progress_timer) and the files on
\* disk are as the previous call left them.
CallAgain ==
    /\ mpc = "returned"
    /\ tpc = "exited"
    /\ call < MaxCalls
    /\ call' = call + 1
    /\ mpc' = "idle"
    /\ tpc' = "off"
    /\ wpc' = [s \in Sources |-> "pending"]
    /\ conn' = [s \in Sources |-> "none"]
    /\ result' = [s \in Sources |-> NoResult]
    /\ consumed' = {}
    /\ success_count' = 0
    /\ error_count' = 0
    /\ group_writers' = EmptyMap
    /\ group_fieldnames' = EmptyMap
    /\ group_row_counts' = EmptyMap
    /\ open_files' = <<>>
    /\ write_failed' = {}
    /\ progress_main' = <<>>
    /\ summary' = NoSummary
    /\ UNCHANGED <<credentials_list, db, max_workers, group_column, single_file_name,
                   lockVars, saveVars, errors, active_threads, stop_progress_timer, files,
                   progress_timer,
                   ticks, artifact, fault_budget>>

RepeatNext == Next \/ CallAgain

\* The runs of PoolSpec, followed by further calls on the same instance.
RepeatSpec == PoolInit /\ [][RepeatNext]_vars

\* -------------------------------------------------------------- save_results
\* summary['results'] as save_results reads it (line 378): the result of
\* fetch_from_schema for every source (lines 162-167, 177-181), in the order
\* of the sources
results ==
    [s \in Sources |->
        IF db[s].outcome = "ok"
        THEN [schema |-> credentials_list[s], status |-> "success", data |-> db[s].rows]
        ELSE [schema |-> credentials_list[s], status |-> "error", data |-> <<>>]]

\* the (source, row index) pairs of the rows of results, in order
RECURSIVE Pairs(_)
Pairs(n) ==
    IF n = 0 THEN <<>>
    ELSE Pairs(n - 1) \o [k \in 1..Len(results[n].data) |-> <<n, k>>]

\* a registry test that takes every row for the first of its group
FirstOfGroup_Always(registry, group_value) == TRUE

\* lines 411 and 424: if group_value not in group_writers / group_fieldnames
FirstOfGroup(registry, group_value) == group_value \notin DOMAIN registry

\* the pairs are handed to write_row (lines 249-297) one by one, by one
\* thread; no sink operation fails
StreamRow ==
    /\ fed < Len(Pairs(NumSources))
    /\ fed' = fed + 1
    /\ LET p == Pairs(NumSources)[fed + 1]
       IN  \E st \in {write_row(WriterState, results[p[1]].schema,
                                results[p[1]].data[p[2]], p, "none")} :
               /\ group_writers' = st.group_writers
               /\ group_fieldnames' = st.group_fieldnames
               /\ group_row_counts' = st.group_row_counts
               /\ open_files' = st.open_files
               /\ files' = st.files
    /\ UNCHANGED <<envVars, lockVars, replay, replay_files, errors, active_threads,
                   stop_progress_timer, workerVars, write_failed, mainVars, timerVars,
                   artifact, fault_budget>>

\* lines 377-392: save_results is called, with the summary of a run whose
\* rows have all been streamed; no results, no file
SaveResultsCall ==
    /\ replay.pc = "idle"
    /\ fed = Len(Pairs(NumSources))
    /\ replay' = [replay EXCEPT !.pc = IF Len(results) = 0 THEN "returned" ELSE "loop"]
    /\ UNCHANGED <<envVars, lockVars, fed, replay_files, errors, active_threads,
                   stop_progress_timer, workerVars, writerVars, mainVars, timerVars,
                   artifact, fault_budget>>

\* lines 394-398: the next result, when this one is not a success or its
\* rows are all written
SaveResultsNextResult ==
    /\ replay.pc = "loop"
    /\ replay.result <= Len(results)
    /\ \/ results[replay.result].status # "success"
       \/ replay.row > Len(results[replay.result].data)
    /\ replay' = [replay EXCEPT !.result = @ + 1, !.row = 1]
    /\ UNCHANGED <<envVars, lockVars, fed, replay_files, errors, active_threads,
                   stop_progress_timer, workerVars, writerVars, mainVars, timerVars,
                   artifact, fault_budget>>

\* lines 398-437: one data_row of a successful result
SaveResultsRow ==
    /\ replay.pc = "loop"
    /\ replay.result <= Len(results)
    /\ results[replay.result].status = "success"
    /\ replay.row <= Len(results[replay.result].data)
    /\ LET schema_name == results[replay.result].schema
           data_row == results[replay.result].data[replay.row]
           row == MergeRow(schema_name, data_row)
           group_value == GroupValue(data_row)
           path == Filename(group_value)
           \* lines 411-421
           opens == FirstOfGroup(replay.group_writers, group_value)
           fs1 == IF opens THEN OpenForWriting(replay_files, path) ELSE replay_files
           counts1 == IF opens THEN (group_value :> 0) @@ replay.group_row_counts
                      ELSE replay.group_row_counts
           handles1 == IF opens
                       THEN Append(replay.open_files,
                                   [key |-> group_value, path |-> path, closed |-> FALSE])
                       ELSE replay.open_files
           \* lines 424-432
           heads == FirstOfGroup(replay.group_fieldnames, group_value)
           fieldnames == IF heads THEN Fieldnames(row)
                         ELSE replay.group_fieldnames[group_value]
           fs2 == IF heads
                  THEN AppendLine(fs1, path,
                          [kind |-> "header", cells |-> fieldnames, tag |-> <<0, 0>>])
                  ELSE fs1
           \* line 435
           fs3 == AppendLine(fs2, path,
                     [kind |-> "row", cells |-> Cells(fieldnames, row),
                      tag |-> <<replay.result, replay.row>>])
       IN  /\ replay_files' = fs3
           /\ replay' = [replay EXCEPT
                  !.open_files = handles1,
                  !.group_fieldnames = (group_value :> fieldnames) @@ @,
                  !.group_writers = (group_value :> fieldnames) @@ @,
                  !.group_row_counts = [counts1 EXCEPT ![group_value] = @ + 1],
                  !.row_count = @ + 1,
                  !.row = @ + 1]
    /\ UNCHANGED <<envVars, lockVars, fed, errors, active_threads, stop_progress_timer,
                   workerVars, writerVars, mainVars, timerVars, artifact, fault_budget>>

\* lines 444-451: every file is closed, the counts are logged
SaveResultsClose ==
    /\ replay.pc = "loop"
    /\ replay.result > Len(results)
    /\ replay' = [replay EXCEPT
           !.pc = "returned",
           !.open_files = [i \in 1..Len(@) |-> [@[i] EXCEPT !.closed = TRUE]]]
    /\ UNCHANGED <<envVars, lockVars, fed, replay_files, errors, active_threads,
                   stop_progress_timer, workerVars, writerVars, mainVars, timerVars,
                   artifact, fault_budget>>

ReplayNext ==
    \/ StreamRow
    \/ SaveResultsCall
    \/ SaveResultsNextResult
    \/ SaveResultsRow
    \/ SaveResultsClose

\* The same rows go through write_row, one by one, and through save_results,
\* each into a directory of its own; no sink operation fails.
ReplayInit == Setup(0) /\ max_workers = 1
ReplaySpec == ReplayInit /\ [][ReplayNext]_vars

\* -------------------------------------------------------------------- claims
\* the result fetch_from_schema owes source s, from what its own database does
Expected(s) ==
    CASE db[s].outcome = "refuse" ->
             [schema |-> credentials_list[s], status |-> "error",
              error |-> "Connection timeout", data |-> <<>>]
      [] db[s].outcome = "queryerr" ->
             [schema |-> credentials_list[s], status |-> "error",
              error |-> "query error", data |-> <<>>]
      [] OTHER ->
             [schema |-> credentials_list[s], status |-> "success",
              error |-> "", data |-> db[s].rows]

PoolLeft == mpc \notin {"idle", "pool"}
Finished == mpc \in {"returned", "raised"}

\* the places <<path, line number>> of the data line of row k of source s
Occurrences(s, k) ==
    {pl \in UNION {{<<p, i>> : i \in 1..Len(files[p].lines)} : p \in DOMAIN files} :
        /\ files[pl[1]].lines[pl[2]].kind = "row"
        /\ files[pl[1]].lines[pl[2]].tag = <<s, k>>}

\* C4: a source's FetchResult is decided by its own descriptor and database
\* alone, whatever the other sources do (also one with the same
\* database_name), and once the pool is left every source is terminal.
C4_SourcesIsolated ==
    /\ \A s \in Sources : wpc[s] = "done" =>
          /\ result[s].schema = credentials_list[s]
          /\ result[s].status = Expected(s).status
          /\ result[s].data = Expected(s).data
    /\ PoolLeft => \A s \in Sources : wpc[s] = "done"

\* C5: at most max_workers workers are connecting or querying, the
\* active_threads map never holds more than max_workers entries, and the
\* pool is not left before every source has a FetchResult.
C5_PoolBounded ==
    /\ Cardinality(Running) <= max_workers
    /\ Cardinality(DOMAIN active_threads) <= max_workers
    /\ PoolLeft => \A s \in Sources : result[s].status # "none"

\* C5's case: fewer pool threads than sources, a worker has finished and
\* the pool is full again
C5_Witness ==
    /\ max_workers < NumSources
    /\ Cardinality(Running) = max_workers
    /\ Cardinality(DOMAIN active_threads) = max_workers
    /\ \E s \in Sources : wpc[s] = "done"

\* C7: when a worker has returned, the connection it opened is closed,
\* whether the query succeeded or failed.
C7_ConnectionClosed ==
    \A s \in Sources : (wpc[s] = "done" /\ conn[s] # "none") => conn[s] = "closed"

Line(pl) == files[pl[1]].lines[pl[2]]

\* the data line pl holds row data_row of a source named schema_name: it is
\* in the file of the row's group and, for every column of the group's
\* header that the row has, it holds the row's value
HoldsRow(pl, data_row) ==
    LET g == GroupValue(data_row)
    IN  /\ pl[1] = Filename(g)
        /\ g \in DOMAIN group_fieldnames
        /\ Len(Line(pl).cells) = Len(group_fieldnames[g])
        /\ \A i \in 1..Len(group_fieldnames[g]) :
              group_fieldnames[g][i] \in Keys(data_row) =>
                  Line(pl).cells[i] = CsvText(data_row[group_fieldnames[g][i]])

\* C1: once fetch_all_schemas has returned, every row of every successful
\* result is on exactly one data line of exactly one file, the file of its
\* group, with the row's values under the header's columns.  (A row whose
\* own write_row call raised is left out: no writer could have written it.)
C1_EveryRowOnce ==
    mpc = "returned" =>
        \A s \in Sources : result[s].status = "success" =>
            \A k \in 1..Len(result[s].data) : <<s, k>> \notin write_failed =>
                /\ Cardinality(Occurrences(s, k)) = 1
                /\ \A pl \in Occurrences(s, k) : HoldsRow(pl, result[s].data[k])

\* the sources configured to fail: connect failure or query error
FailingSources == {s \in Sources : db[s].outcome # "ok"}

\* C2: with F of the K sources failing, the summary has failed = F and
\* successful = K - F, and every row of every other source is written.
C2_SummaryCounts ==
    mpc = "returned" =>
        /\ summary.failed = Cardinality(FailingSources)
        /\ summary.successful = NumSources - Cardinality(FailingSources)
        /\ \A s \in Sources \ FailingSources :
              \A k \in 1..Len(db[s].rows) : Occurrences(s, k) # {}

\* C3: fetch_all_schemas does not raise, whatever the sources do and return;
\* when every source fails the summary has no success and lists every source.
C3_AlwaysReturns ==
    /\ mpc # "raised"
    /\ (mpc = "returned" /\ FailingSources = Sources) =>
          /\ summary.successful = 0
          /\ Len(summary.errors) = NumSources
          /\ \A s \in Sources : \E i \in 1..Len(summary.errors) :
                summary.errors[i].schema = credentials_list[s]

\* C6: when fetch_all_schemas has finished, by returning or by raising, no
\* file it opened is still open; and no file is closed before every
\* future's rows have been written.
C6_SinksClosed ==
    /\ Finished => \A i \in 1..Len(open_files) : open_files[i].closed
    /\ (\E i \in 1..Len(open_files) : open_files[i].closed) => consumed = Sources

\* C8: once fetch_all_schemas has returned, the progress artifact holds the
\* snapshot taken after all workers finished: no active thread.
C8_FinalProgress ==
    mpc = "returned" => (artifact # <<>> /\ artifact[1].active_threads = 0)

\* C9: when a write_row call has failed for a row of one group, every row
\* of a successful result that belongs to another group is still written.
C9_OtherGroupsWritten ==
    PoolLeft =>
        \A f \in write_failed : \A s \in Sources : result[s].status = "success" =>
            \A k \in 1..Len(result[s].data) :
                GroupValue(result[s].data[k]) # GroupValue(result[f[1]].data[f[2]])
                    => Occurrences(s, k) # {}

\* C10: a finished worker has returned exactly one result, naming its
\* source: an error after a connect failure or a query error, the rows
\* otherwise; and fetch_all_schemas counts each result it takes once.
C10_OneResultCountedOnce ==
    /\ \A s \in Sources : wpc[s] = "done" =>
          /\ result[s].status \in {"error", "success"}
          /\ result[s].schema = credentials_list[s]
          /\ db[s].outcome # "ok" => result[s].status = "error"
          /\ result[s].status = "success" => result[s].data = db[s].rows
    /\ success_count + error_count = Cardinality(consumed)

\* the status the entry of a running worker shows: 'connecting' until line
\* 141 has run, 'querying' after it
PhaseStatus(s) == IF wpc[s] = "querying" THEN "querying" ELSE "connecting"

\* C11: active_threads holds an entry for a worker exactly while it is
\* connecting or querying, the entry shows the worker's own phase (so its
\* status only moves from 'connecting' to 'querying'), a terminal worker has
\* none, and the map is empty once every source is terminal.
C11_EntryWhileRunning ==
    /\ \A s \in Running :
          /\ thread_name(s) \in DOMAIN active_threads
          /\ active_threads[thread_name(s)].schema = credentials_list[s]
          /\ active_threads[thread_name(s)].status = PhaseStatus(s)
    /\ DOMAIN active_threads = {thread_name(s) : s \in Running}
    /\ (\A s \in Sources : wpc[s] = "done") => active_threads = EmptyMap

\* the sources fetch_all_schemas counted in success_count (line 320)
CountedSuccessful == {s \in consumed : result[s].status = "success"}

RECURSIVE RowsReturned(_)
RowsReturned(S) ==
    IF S = {} THEN 0
    ELSE LET s == CHOOSE x \in S : TRUE
         IN  Len(result[s].data) + RowsReturned(S \ {s})

\* the data lines of the file at path
DataLines(path) == SelectSeq(files[path].lines, LAMBDA l : l.kind = "row")

\* C12: the total_rows_written of the summary is the number of rows
\* returned by the sources counted as successful, and at any time each
\* group's counter is the number of data lines in the group's file.
C12_RowTotals ==
    /\ mpc = "returned" =>
          summary.total_rows_written = RowsReturned(CountedSuccessful)
    /\ \A g \in DOMAIN group_row_counts :
          /\ Filename(g) \in DOMAIN files
          /\ group_row_counts[g] = Len(DataLines(Filename(g)))

\* the lines of the file of group g
GroupLines(g) == IF Filename(g) \in DOMAIN files THEN files[Filename(g)].lines ELSE <<>>

\* the file of group g begins with the group's header and holds no other
\* header line
HeaderFirstAndOnce(g) ==
    GroupLines(g) # <<>> =>
        /\ GroupLines(g)[1].kind = "header"
        /\ GroupLines(g)[1].cells = group_fieldnames[g]
        /\ \A i \in 2..Len(GroupLines(g)) : GroupLines(g)[i].kind = "row"

\* a step leaves the header of every group that has one as it is
HeaderKept ==
    \A g \in DOMAIN group_fieldnames :
        /\ g \in DOMAIN group_fieldnames'
        /\ group_fieldnames'[g] = group_fieldnames[g]
        /\ GroupLines(g) # <<>> =>
              /\ Filename(g) \in DOMAIN files'
              /\ files'[Filename(g)].lines # <<>>
              /\ files'[Filename(g)].lines[1] = GroupLines(g)[1]

\* C13: a group's header, once fixed, is never changed by a later step,
\* whichever source the later rows come from; the header line is the first
\* line of the group's file, before every data line, and is written once.
C13_HeaderFixed ==
    /\ [](\A g \in DOMAIN group_fieldnames : HeaderFirstAndOnce(g))
    /\ [][HeaderKept]_vars

\* the entries the current call appended to errors are about sources of the
\* call that it counted as failed
FailedInCall(e) ==
    \E s \in consumed :
        /\ e.schema = credentials_list[s]
        /\ result[s].status = "error" \/ \E k \in 1..Len(result[s].data) : <<s, k>> \in write_failed

\* C14: in the summary a call of fetch_all_schemas returns, first or later
\* on the same instance, errors has one entry per source counted as failed,
\* each the error result of a source that failed in that call, in the order
\* the failures were taken.
C14_ErrorsOfTheRun ==
    mpc = "returned" =>
        /\ Len(summary.errors) = summary.failed
        /\ \A i \in 1..Len(summary.errors) : FailedInCall(summary.errors[i])

\* C15: a thread is between the acquisition and the release of the lock
\* only while it holds the lock, so at most one thread is; and when its call
\* has counted the row, the registries and files are what one uninterrupted
\* write_row makes of the state it found when it acquired the lock.
C15_WriteRowSerialized ==
    /\ \A c \in Callers : wr[c].pc \in Inside => lock = c
    /\ \A c \in Callers : wr[c].pc = "counted" =>
          WriterState = write_row(wr[c].before, wr[c].schema_name, wr[c].data_row,
                                  <<c, wr[c].n>>, "none")

\* C15's case: a thread has created a group's file and written its row
\* while another thread, called with a row of the same group and other
\* columns, waits for the lock
C15_Witness ==
    \E c \in Callers, d \in Callers :
        /\ wr[c].pc = "counted"
        /\ wr[d].pc = "called"
        /\ GroupValue(wr[c].data_row) = GroupValue(wr[d].data_row)
        /\ Keys(wr[c].data_row) # Keys(wr[d].data_row)
        /\ group_row_counts[GroupValue(wr[c].data_row)] = 1

\* every row of the result of s is on a data line
RowsWritten(s) == \A k \in 1..Len(result[s].data) : Occurrences(s, k) # {}

\* C16: when one source's query never returns and the pool has two threads
\* or more, every other source reaches its terminal state and its result is
\* taken, and the rows of a successful one are written, without the hung
\* source's query returning.
C16_HungQueryBlocksOnlyItself ==
    <>(\A h \in Sources : db[h] = Hang =>
          \A s \in Sources \ {h} :
              /\ wpc[s] = "done"
              /\ s \in consumed
              /\ result[s].status = "success" => RowsWritten(s))

\* C16's case: the first source submitted hangs in its query, a later one
\* has returned rows and they are in their file
C16_Witness ==
    /\ db[1] = Hang
    /\ wpc[1] = "querying"
    /\ \E s \in Sources \ {1} :
          /\ s \in consumed
          /\ result[s].status = "success"
          /\ result[s].data # <<>>
          /\ RowsWritten(s)

\* The run with one pool thread in which every future is taken as it
\* completes: the sources are fetched and written one after the other, in
\* the order of submission.
RECURSIVE SerialRun(_, _)
SerialRun(st, s) ==
    IF s > NumSources THEN st
    ELSE SerialRun(IF db[s].outcome = "ok"
                   THEN WriteRows(st, s, db[s].rows, 1, 0, "none")
                   ELSE st,
                   s + 1)

\* the rows written to the file at path in the files fs: the <<source name,
\* result row>> of its data lines, each with the number of lines that hold it
WrittenRow(tag) == <<credentials_list[tag[1]], db[tag[1]].rows[tag[2]]>>
RowTags(fs, path) ==
    IF path \in DOMAIN fs
    THEN {fs[path].lines[i].tag : i \in {j \in 1..Len(fs[path].lines) :
                                            fs[path].lines[j].kind = "row"}}
    ELSE {}
RowBag(fs, path) ==
    [v \in {WrittenRow(tg) : tg \in RowTags(fs, path)} |->
        Cardinality({tg \in RowTags(fs, path) : WrittenRow(tg) = v})]

\* C17: when the pool is left in a run with a pool thread per source, each
\* group's file holds the same rows, as a multiset, as in the run with one
\* pool thread, whatever the order in which the sources completed.
C17_SameRowsAtAnyConcurrency ==
    (max_workers = NumSources /\ PoolLeft) =>
        \A path \in DOMAIN files \cup DOMAIN SerialRun(IdleCaller.before, 1).files :
            RowBag(files, path) = RowBag(SerialRun(IdleCaller.before, 1).files, path)

\* the place of a column name in lexicographic order
Rank(c) == CHOOSE i \in 1..Len(ColumnOrder) : ColumnOrder[i] = c

\* the call of thread c found its group without a header and has fixed it
FixedHeader(c) ==
    /\ wr[c].pc \in {"headed", "written", "counted"}
    /\ GroupValue(wr[c].data_row) \notin DOMAIN wr[c].before.group_fieldnames

\* C18: the header fixed by the first row that arrives for a group is
\* 'schema', then the row's other column names, each once, in lexicographic
\* order; and it is the line written at the top of the group's file.
C18_HeaderOfFirstRow ==
    \A c \in Callers : FixedHeader(c) =>
        LET g == GroupValue(wr[c].data_row)
            h == group_fieldnames[g]
        IN  /\ h[1] = "schema"
            /\ {h[i] : i \in 2..Len(h)} = Keys(wr[c].data_row) \ {"schema"}
            /\ \A i \in 2..Len(h), j \in 2..Len(h) : i < j => Rank(h[i]) < Rank(h[j])
            /\ GroupLines(g)[1].kind = "header"
            /\ GroupLines(g)[1].cells = h

\* C18's case: a row with the columns y and n has fixed its group's header
C18_Witness ==
    \E c \in Callers :
        /\ FixedHeader(c)
        /\ wr[c].pc = "counted"
        /\ Keys(wr[c].data_row) = {"n", "y"}
        /\ group_fieldnames[GroupValue(wr[c].data_row)] = <<"schema", "n", "y">>

\* the data line the call of thread c has written: the last line of the
\* file of its group
LineOf(c) ==
    GroupLines(GroupValue(wr[c].data_row))[Len(GroupLines(GroupValue(wr[c].data_row)))]

\* C19: the data line of a row has one cell per column of its group's
\* header, in the header's order: the row's value for a column the row
\* has, the empty string for a column it lacks; a column of the row that is
\* not in the header appears nowhere; and a header that was fixed before
\* the call is the same after it.
C19_PositionalCells ==
    \A c \in Callers : wr[c].pc \in {"written", "counted"} =>
        LET g == GroupValue(wr[c].data_row)
            h == group_fieldnames[g]
            row == MergeRow(wr[c].schema_name, wr[c].data_row)
        IN  /\ LineOf(c).kind = "row"
            /\ LineOf(c).tag = <<c, wr[c].n>>
            /\ Len(LineOf(c).cells) = Len(h)
            /\ \A i \in 1..Len(h) :
                  LineOf(c).cells[i] = IF h[i] \in Keys(row) THEN CsvText(row[h[i]]) ELSE ""
            /\ g \in DOMAIN wr[c].before.group_fieldnames =>
                  /\ h = wr[c].before.group_fieldnames[g]
                  /\ GroupLines(g)[1] = wr[c].before.files[Filename(g)].lines[1]

\* C19's case: a row with the column n has been written to a group whose
\* header, fixed by an earlier row, has no column n
C19_Witness ==
    \E c \in Callers :
        /\ wr[c].pc = "counted"
        /\ "n" \in Keys(wr[c].data_row)
        /\ GroupValue(wr[c].data_row) \in DOMAIN wr[c].before.group_fieldnames
        /\ group_fieldnames[GroupValue(wr[c].data_row)] = <<"schema", "y">>
        /\ Len(LineOf(c).cells) = 2

\* C20: two rows of one source that are in the same file are there in the
\* order of the source's result set.
C20_SourceOrderKept ==
    \A path \in DOMAIN files :
        \A i \in 1..Len(files[path].lines), j \in 1..Len(files[path].lines) :
            (/\ i < j
             /\ files[path].lines[i].kind = "row"
             /\ files[path].lines[j].kind = "row"
             /\ files[path].lines[i].tag[1] = files[path].lines[j].tag[1])
                => files[path].lines[i].tag[2] < files[path].lines[j].tag[2]

\* C20's case: a source has returned two different rows of one group and
\* both are in the group's file
C20_Witness ==
    \E s \in Sources :
        /\ s \in consumed
        /\ Len(result[s].data) >= 2
        /\ result[s].data[1] # result[s].data[2]
        /\ GroupValue(result[s].data[1]) = GroupValue(result[s].data[2])
        /\ Occurrences(s, 1) # {}
        /\ Occurrences(s, 2) # {}

\* the groups of the rows of the results taken so far
GroupsArrived ==
    {GroupValue(result[s].data[k]) : <<s, k>> \in
        UNION {{<<s, k>> : k \in 1..Len(result[s].data)} : s \in consumed}}

\* C21: a source whose query returned no row is counted as successful and
\* leaves no line and no file; a file, with its header, exists only for a
\* group a row has arrived for, one file per such group.
C21_EmptyResultNoSink ==
    /\ success_count = Cardinality(CountedSuccessful)
    /\ \A i \in 1..Len(open_files) : open_files[i].key \in GroupsArrived
    /\ Len(open_files) = Cardinality(GroupsArrived)
    /\ DOMAIN files = {Filename(g) : g \in GroupsArrived}
    /\ DOMAIN group_fieldnames = GroupsArrived
    /\ \A path \in DOMAIN files :
          /\ Len(files[path].lines) >= 2
          /\ files[path].lines[1].kind = "header"

\* C21's case: a source with an empty result has been taken after a source
\* with rows: it is counted, and the files are those of the other source
C21_Witness ==
    \E s \in consumed, u \in consumed :
        /\ result[s].status = "success"
        /\ result[s].data = <<>>
        /\ result[u].data # <<>>
        /\ success_count = 2
        /\ Len(open_files) = 1

\* what a run produces besides the progress file
RunOutcome == <<result, errors, files, open_files, group_row_counts, success_count,
                error_count, consumed, summary>>

\* a step that ends a write of the progress file: by the timer thread, by
\* the final call
TimerWriteStep == tpc = "write" /\ tpc' # tpc
FinalWriteStep == mpc = "final_write" /\ mpc' # mpc

\* C22: a write of the progress file, failed or not, leaves the results,
\* the files and the summary alone, the timer thread goes back to its loop
\* and the final call goes on to the summary; neither thread is left by an
\* exception, and the summary returned is the one the counters give.
C22_ProgressIsObservabilityOnly ==
    /\ [](tpc # "raised" /\ mpc # "raised")
    /\ [](mpc = "returned" =>
            summary = [total_schemas |-> NumSources, successful |-> success_count,
                       failed |-> error_count,
                       total_rows_written |-> SumCounts(group_row_counts),
                       errors |-> errors])
    /\ [][/\ TimerWriteStep => (tpc' = "loop" /\ RunOutcome' = RunOutcome)
          /\ FinalWriteStep => (mpc' = "summary" /\ RunOutcome' = RunOutcome)]_vars

\* C22's case: a write of the progress file has failed and the run has
\* returned its summary
C22_Witness ==
    /\ fault_budget < MaxFaults
    /\ mpc = "returned"
    /\ summary.total_schemas = NumSources
    /\ artifact = <<>>

\* C23: in the summary fetch_all_schemas returns, successful + failed is
\* total_schemas, also when writing the rows of a source raised.
C23_CountersPartitionSources ==
    mpc = "returned" => summary.successful + summary.failed = summary.total_schemas

\* C24: no path is opened for writing twice in a run, and two groups that
\* are open have different files.
C24_OneFilePerGroup ==
    /\ \A path \in DOMAIN files : files[path].opens <= 1
    /\ \A i \in 1..Len(open_files), j \in 1..Len(open_files) :
          open_files[i].key # open_files[j].key => open_files[i].path # open_files[j].path


\* C25: on every call of fetch_all_schemas, a second call on the same instance
\* included, the progress reporter is not stopped before the sources of that
\* call are done: while the call is in its worker pool the stop flag is
\* false and the timer thread has not left its loop.
C25_TimerRunsWhilePoolRuns ==
    mpc = "pool" => ~stop_progress_timer /\ tpc # "exited"


\* C26: the first field of every data line written by write_row is the
\* database_name of the source that produced the row, also when the query
\* result has a column named schema.
C26_FirstFieldIsSource ==
    \A path \in DOMAIN files : \A i \in 1..Len(files[path].lines) :
        files[path].lines[i].kind = "row"
            => files[path].lines[i].cells[1] = credentials_list[files[path].lines[i].tag[1]]


\* C27: save_results and write_row are equivalent: given the same sequence
\* of (source, row) pairs and the same group_column and single_file_name, they
\* create the same files, with the same header and data lines in the same
\* order, and count the same rows for every group.
C27_ReplayEqualsStream ==
    (fed = Len(Pairs(NumSources)) /\ replay.pc = "returned") =>
        /\ DOMAIN replay_files = DOMAIN files
        /\ \A path \in DOMAIN files : replay_files[path].lines = files[path].lines
        /\ replay.group_row_counts = group_row_counts
        /\ replay.group_fieldnames = group_fieldnames

\* both paths have taken two rows of one group from two sources
C27_Witness ==
    /\ fed = Len(Pairs(NumSources))
    /\ replay.pc = "returned"
    /\ replay.row_count = 2
    /\ \E g \in DOMAIN group_row_counts : group_row_counts[g] = 2
    /\ \A s \in 1..2 : Len(results[s].data) = 1

====
